---- MODULE Spec2Model ----
(***************************************************************************)
(* Model of src/app.py: the three agents (classification_agent,            *)
(* resolution_suggestion_agent, explanation_agent) and the fan-out         *)
(* coordinator process_exception that runs them on a ThreadPoolExecutor.   *)
(*                                                                         *)
(* Text.  A Python str is a sequence of chunks.  A chunk is either one of  *)
(* the characters that json treats specially inside a string literal       *)
(* (the double quote, the backslash, a control character) or a run of      *)
(* ordinary characters.  Outside string literals the JSON scanner sees one *)
(* chunk as one token, so JSON text is written with its structural         *)
(* characters, white space and scalars as chunks of their own.             *)
(***************************************************************************)
EXTENDS Naturals, Sequences, FiniteSets, TLC

QUOTE == "\""
BSL == "\\"
NL == "\n"
TAB == "\t"
SP == " "

\* json.decoder WHITESPACE: characters skipped between tokens
Whitespace == {SP, NL, TAB, "\r"}

\* characters json.loads (strict) rejects raw inside a string literal
ControlChars == {NL, TAB, "\r"}

\* the scalar tokens (literals and numbers) the modelled texts use
JsonScalars == {"true", "false", "null", "0", "1", "85"}

----------------------------------------------------------------------------
(* json.loads                                                              *)

JFail(msg) == [ok |-> FALSE, next |-> 0, val |-> [k |-> "none", s |-> <<>>, items |-> <<>>], err |-> msg]

JOk(n, v) == [ok |-> TRUE, next |-> n, val |-> v, err |-> <<>>]

JString(s) == [k |-> "string", s |-> s, items |-> <<>>]

JScalar(c) == [k |-> "scalar", s |-> <<c>>, items |-> <<>>]

JObject(items) == [k |-> "object", s |-> <<>>, items |-> items]

JArray(items) == [k |-> "array", s |-> <<>>, items |-> items]

RECURSIVE SkipWs(_, _)
SkipWs(a, i) ==
    IF i <= Len(a) /\ a[i] \in Whitespace THEN SkipWs(a, i + 1) ELSE i

\* the character an escape sequence \c stands for (py_scanstring BACKSLASH)
Unescaped(c) ==
    CASE c = QUOTE -> QUOTE
      [] c = BSL -> BSL
      [] c = "/" -> "/"
      [] c = "n" -> NL
      [] c = "t" -> TAB
      [] c = "r" -> "\r"
      [] OTHER -> ""

RECURSIVE ParseString(_, _, _)
\* scans a string literal whose opening quote is at i - 1
ParseString(a, i, acc) ==
    IF i > Len(a) THEN JFail(<<"Unterminated string starting at">>)
    ELSE IF a[i] = QUOTE THEN JOk(i + 1, JString(acc))
    ELSE IF a[i] \in ControlChars THEN JFail(<<"Invalid control character at">>)
    ELSE IF a[i] = BSL THEN
        IF i + 1 > Len(a) THEN JFail(<<"Unterminated string starting at">>)
        ELSE IF Unescaped(a[i + 1]) = "" THEN JFail(<<"Invalid ", BSL, "escape">>)
        ELSE ParseString(a, i + 2, Append(acc, Unescaped(a[i + 1])))
    ELSE ParseString(a, i + 1, Append(acc, a[i]))

RECURSIVE ParseValue(_, _)
RECURSIVE ParseMembers(_, _, _)
RECURSIVE ParseElements(_, _, _)

\* one "key": value pair at i, then either "," and more pairs or "}"
ParseMembers(a, i, items) ==
    IF i > Len(a) \/ a[i] # QUOTE
    THEN JFail(<<"Expecting property name enclosed in double quotes">>)
    ELSE LET key == ParseString(a, i + 1, <<>>) IN
      IF ~key.ok THEN key
      ELSE LET c == SkipWs(a, key.next) IN
        IF c > Len(a) \/ a[c] # ":" THEN JFail(<<"Expecting ':' delimiter">>)
        ELSE LET v == ParseValue(a, SkipWs(a, c + 1)) IN
          IF ~v.ok THEN v
          ELSE LET e == SkipWs(a, v.next)
                   got == Append(items, <<key.val.s, v.val>>) IN
            IF e <= Len(a) /\ a[e] = "}" THEN JOk(e + 1, JObject(got))
            ELSE IF e <= Len(a) /\ a[e] = "," THEN ParseMembers(a, SkipWs(a, e + 1), got)
            ELSE JFail(<<"Expecting ',' delimiter">>)

\* one array element at i, then either "," and more elements or "]"
ParseElements(a, i, items) ==
    LET v == ParseValue(a, i) IN
      IF ~v.ok THEN v
      ELSE LET e == SkipWs(a, v.next)
               got == Append(items, v.val) IN
        IF e <= Len(a) /\ a[e] = "]" THEN JOk(e + 1, JArray(got))
        ELSE IF e <= Len(a) /\ a[e] = "," THEN ParseElements(a, SkipWs(a, e + 1), got)
        ELSE JFail(<<"Expecting ',' delimiter">>)

\* JSONDecoder.scan_once at position i
ParseValue(a, i) ==
    IF i > Len(a) THEN JFail(<<"Expecting value">>)
    ELSE IF a[i] = QUOTE THEN ParseString(a, i + 1, <<>>)
    ELSE IF a[i] = "{" THEN
        LET m == SkipWs(a, i + 1) IN
          IF m <= Len(a) /\ a[m] = "}" THEN JOk(m + 1, JObject(<<>>))
          ELSE ParseMembers(a, m, <<>>)
    ELSE IF a[i] = "[" THEN
        LET m == SkipWs(a, i + 1) IN
          IF m <= Len(a) /\ a[m] = "]" THEN JOk(m + 1, JArray(<<>>))
          ELSE ParseElements(a, m, <<>>)
    ELSE IF a[i] \in JsonScalars THEN JOk(i + 1, JScalar(a[i]))
    ELSE JFail(<<"Expecting value">>)

\* json.loads(text): the whole text is one value between optional white space
Loads(a) ==
    LET v == ParseValue(a, SkipWs(a, 1)) IN
      IF ~v.ok THEN v
      ELSE IF SkipWs(a, v.next) <= Len(a) THEN JFail(<<"Extra data">>)
      ELSE v

\* str(e) of a json.JSONDecodeError: "<msg>: line L column C (char P)";
\* the position suffix is digits and ordinary characters only
DecodeErrorText(err) == err \o <<": line L column C (char P)">>

----------------------------------------------------------------------------
(* json.dumps                                                              *)

\* a serializer that quotes without escaping
EscapeChar_none(c) == <<c>>

\* json.encoder ESCAPE_DCT for one character
EscapeChar(c) ==
    CASE c = QUOTE -> <<BSL, QUOTE>>
      [] c = BSL -> <<BSL, BSL>>
      [] c = NL -> <<BSL, "n">>
      [] c = TAB -> <<BSL, "t">>
      [] c = "\r" -> <<BSL, "r">>
      [] OTHER -> <<c>>

RECURSIVE EscapeAll(_)
EscapeAll(s) ==
    IF s = <<>> THEN <<>> ELSE EscapeChar(Head(s)) \o EscapeAll(Tail(s))

\* json.encoder encode_basestring: a str as a JSON string literal
EncodeString(s) == <<QUOTE>> \o EscapeAll(s) \o <<QUOTE>>

RECURSIVE DumpsItems(_)
DumpsItems(pairs) ==
    IF pairs = <<>> THEN <<>>
    ELSE EncodeString(pairs[1][1]) \o <<":", SP>> \o EncodeString(pairs[1][2])
         \o (IF Len(pairs) > 1 THEN <<",", SP>> ELSE <<>>)
         \o DumpsItems(Tail(pairs))

\* json.dumps of a dict of str to str, default separators (", ", ": ")
Dumps(pairs) == <<"{">> \o DumpsItems(pairs) \o <<"}">>

----------------------------------------------------------------------------
(* Python values and call outcomes                                         *)

Str(s) == [ty |-> "str", s |-> s]

NoneVal == [ty |-> "None", s |-> <<>>]

\* a call that returned v
Returns(v) == [kind |-> "result", val |-> v, cls |-> "", msg |-> <<>>]

\* a call that raised an exception of class cls with str(e) = msg
Raises(cls, msg) == [kind |-> "exception", val |-> NoneVal, cls |-> cls, msg |-> msg]

\* json.loads(content) as the agents use it: only whether and how it raises
JsonLoadsCheck(content) ==
    IF content.ty # "str"
    THEN Raises("TypeError", <<"the JSON object must be str, bytes or bytearray, not NoneType">>)
    ELSE LET r == Loads(content.s) IN
           IF r.ok THEN Returns(content)
           ELSE Raises("JSONDecodeError", DecodeErrorText(r.err))

\* the try body of the two validating agents: the provider call, then the
\* validation of its content, then `return content`
ValidatedCall(response) ==
    IF response.kind = "exception" THEN response ELSE JsonLoadsCheck(response.val)

\* the handlers in the other order: `except Exception` hides the decode error
classification_agent_swapped(response) ==
    LET r == ValidatedCall(response) IN
      IF r.kind = "result" THEN r
      ELSE Returns(Str(Dumps(<< <<(<<"type">>), <<"Error: System error">>>>,
                                <<(<<"priority">>), <<"N/A">>>>,
                                <<(<<"complexity">>), <<"An unexpected error occurred: ">> \o r.msg>> >>)))

\* without the `except Exception` handler
classification_agent_nocatch(response) ==
    LET r == ValidatedCall(response) IN
      IF r.kind = "result" THEN r
      ELSE IF r.cls = "JSONDecodeError"
      THEN Returns(Str(Dumps(<< <<(<<"type">>), <<"Error: Invalid response format">>>>,
                                <<(<<"priority">>), <<"N/A">>>>,
                                <<(<<"complexity">>), <<"Failed to process the classification: ">> \o r.msg>> >>)))
      ELSE r

classification_agent(response) ==
    LET r == ValidatedCall(response) IN
      IF r.kind = "result" THEN r
      ELSE IF r.cls = "JSONDecodeError"
      THEN Returns(Str(Dumps(<< <<(<<"type">>), <<"Error: Invalid response format">>>>,
                                <<(<<"priority">>), <<"N/A">>>>,
                                <<(<<"complexity">>), <<"Failed to process the classification: ">> \o r.msg>> >>)))
      ELSE Returns(Str(Dumps(<< <<(<<"type">>), <<"Error: System error">>>>,
                                <<(<<"priority">>), <<"N/A">>>>,
                                <<(<<"complexity">>), <<"An unexpected error occurred: ">> \o r.msg>> >>)))

\* `return json.dumps(json.loads(content))` instead of `return content`
resolution_suggestion_agent_reserialized(response) ==
    LET r == ValidatedCall(response) IN
      IF r.kind = "result"
      THEN LET v == Loads(r.val.s).val IN
             IF v.k = "object" /\ \A j \in DOMAIN v.items : v.items[j][2].k = "string"
             THEN Returns(Str(Dumps([j \in DOMAIN v.items |-> <<v.items[j][1], v.items[j][2].s>>])))
             ELSE r
      ELSE IF r.cls = "JSONDecodeError"
      THEN Returns(Str(Dumps(<< <<(<<"suggestion">>), <<"Error: Invalid response format">>>>,
                                <<(<<"confidence">>), <<"0%">>>>,
                                <<(<<"rationale">>), <<"Failed to process the suggestion: ">> \o r.msg>> >>)))
      ELSE Returns(Str(Dumps(<< <<(<<"suggestion">>), <<"Error: System error">>>>,
                                <<(<<"confidence">>), <<"0%">>>>,
                                <<(<<"rationale">>), <<"An unexpected error occurred: ">> \o r.msg>> >>)))

resolution_suggestion_agent(response) ==
    LET r == ValidatedCall(response) IN
      IF r.kind = "result" THEN r
      ELSE IF r.cls = "JSONDecodeError"
      THEN Returns(Str(Dumps(<< <<(<<"suggestion">>), <<"Error: Invalid response format">>>>,
                                <<(<<"confidence">>), <<"0%">>>>,
                                <<(<<"rationale">>), <<"Failed to process the suggestion: ">> \o r.msg>> >>)))
      ELSE Returns(Str(Dumps(<< <<(<<"suggestion">>), <<"Error: System error">>>>,
                                <<(<<"confidence">>), <<"0%">>>>,
                                <<(<<"rationale">>), <<"An unexpected error occurred: ">> \o r.msg>> >>)))

\* no try: the provider's error propagates, its content is returned as is
explanation_agent(response) == response

\* the agents dict, in insertion order
AgentOrder == <<"classification", "resolution", "explanation">>

AgentNames == {AgentOrder[i] : i \in DOMAIN AgentOrder}

\* agents[name](exception_details), given what the provider call does
RunAgent(name, response) ==
    CASE name = "classification" -> classification_agent(response)
      [] name = "resolution" -> resolution_suggestion_agent(response)
      [] name = "explanation" -> explanation_agent(response)

----------------------------------------------------------------------------
(* The completion provider, as a deterministic stub                        *)

\* the operator's inputs: empty, the sample report, a report with quotes
Texts ==
    { <<>>,
      <<"Trade break: settlement mismatch of $500 on trade #12345">>,
      <<"fund ", QUOTE, "A", QUOTE, " short">> }

SampleJson ==
    <<"{", QUOTE, "type", QUOTE, ":", QUOTE, "Settlement Mismatch", QUOTE, ",",
      QUOTE, "priority", QUOTE, ":", QUOTE, "High", QUOTE, ",",
      QUOTE, "complexity", QUOTE, ":", QUOTE, "Medium", QUOTE, "}">>

\* what a stub does with a request: answer a fixed content (JSON, prose,
\* no content at all), answer the input in quotes, or raise
Behaviours ==
    { [kind |-> "result", val |-> Str(SampleJson), cls |-> "", msg |-> <<>>],
      [kind |-> "result", val |-> Str(<<"not", SP, "json">>), cls |-> "", msg |-> <<>>],
      [kind |-> "result", val |-> NoneVal, cls |-> "", msg |-> <<>>],
      [kind |-> "echo", val |-> NoneVal, cls |-> "", msg |-> <<>>],
      [kind |-> "exception", val |-> NoneVal, cls |-> "APIConnectionError",
       msg |-> <<"Connection error: ", QUOTE, "reset", QUOTE, BSL, NL>>],
      [kind |-> "exception", val |-> NoneVal, cls |-> "JSONDecodeError",
       msg |-> DecodeErrorText(<<"Expecting value">>)] }

\* client.chat.completions.create(...).choices[0].message.content for the
\* request of agent `name` about exception_details t
Complete(st, name, t) ==
    IF st[name].kind = "echo" THEN Returns(Str(<<QUOTE>> \o t \o <<QUOTE>>))
    ELSE st[name]

----------------------------------------------------------------------------
(* process_exception                                                       *)

VARIABLES
    stub,               \* the provider: a behaviour per agent
    pc,                 \* where process_exception is
    exception_details,  \* its argument
    nsub,               \* executor.submit calls that returned
    wstate,             \* per work item: none, queued, running, finished
    future,             \* per work item: the outcome set on its future
    future_to_agent,    \* the dict of line 105, once built
    idx,                \* position of the for loop in future_to_agent
    results,            \* the results dict
    pending,            \* the exception in flight, if any
    executor_shutdown,  \* the with block has shut the pool down
    retval,             \* the mapping returned
    errors,             \* what st.error has displayed
    prev                \* input and output of the previous call

vars == <<stub, pc, exception_details, nsub, wstate, future,
          future_to_agent, idx, results, pending, executor_shutdown, retval,
          errors, prev>>

Items == DOMAIN AgentOrder

EmptyMap == [n \in {} |-> NoneVal]

NoFuture == [kind |-> "pending", val |-> NoneVal, cls |-> "", msg |-> <<>>]

NoException == [kind |-> "none", val |-> NoneVal, cls |-> "", msg |-> <<>>]

NoCall == [valid |-> FALSE, input |-> <<>>, submitted |-> 0, output |-> EmptyMap]

Init ==
    /\ stub \in [AgentNames -> Behaviours]
    /\ pc = "idle"
    /\ exception_details = <<>>
    /\ nsub = 0
    /\ wstate = [i \in Items |-> "none"]
    /\ future = [i \in Items |-> NoFuture]
    /\ future_to_agent = <<>>
    /\ idx = 0
    /\ results = EmptyMap
    /\ pending = NoException
    /\ executor_shutdown = FALSE
    /\ retval = EmptyMap
    /\ errors = <<>>
    /\ prev = NoCall

\* entry: the agents dict, results = {}, the executor is created
Call(t) ==
    /\ pc \in {"idle", "returned", "raised"}
    /\ pc' = "submit"
    /\ exception_details' = t
    /\ nsub' = 0
    /\ wstate' = [i \in Items |-> "none"]
    /\ future' = [i \in Items |-> NoFuture]
    /\ future_to_agent' = <<>>
    /\ idx' = 0
    /\ results' = EmptyMap
    /\ pending' = NoException
    /\ executor_shutdown' = FALSE
    /\ retval' = EmptyMap
    /\ errors' = <<>>
    /\ prev' = IF pc = "returned"
               THEN [valid |-> TRUE, input |-> exception_details,
                     submitted |-> nsub, output |-> retval]
               ELSE prev
    /\ UNCHANGED stub

\* executor.submit(func, exception_details) returns a future; after the
\* last one the comprehension has built future_to_agent and the loop starts
Submit ==
    /\ pc = "submit"
    /\ nsub < Len(AgentOrder)
    /\ nsub' = nsub + 1
    /\ wstate' = [wstate EXCEPT ![nsub + 1] = "queued"]
    /\ IF nsub + 1 = Len(AgentOrder)
       THEN /\ future_to_agent' = AgentOrder
            /\ idx' = 1
            /\ pc' = "collect"
       ELSE UNCHANGED <<future_to_agent, idx, pc>>
    /\ UNCHANGED <<stub, exception_details, future, results, pending,
                   executor_shutdown, retval, errors, prev>>

\* executor.submit raises (no thread can be started, interpreter shutting
\* down).  The work item may already be on the queue: a worker thread
\* started by an earlier submit then runs it.
SubmitFail(enqueued) ==
    /\ pc = "submit"
    /\ nsub < Len(AgentOrder)
    /\ wstate' = [wstate EXCEPT ![nsub + 1] =
                     IF enqueued /\ nsub > 0 THEN "queued" ELSE "none"]
    /\ pending' = Raises("RuntimeError", <<"can't start new thread">>)
    /\ pc' = "exit"
    /\ UNCHANGED <<stub, exception_details, nsub, future,
                   future_to_agent, idx, results, executor_shutdown, retval,
                   errors, prev>>

\* a pool thread takes the work item off the queue
WorkerStart(i) ==
    /\ wstate[i] = "queued"
    /\ wstate' = [wstate EXCEPT ![i] = "running"]
    /\ UNCHANGED <<stub, pc, exception_details, nsub, future,
                   future_to_agent, idx, results, pending, executor_shutdown,
                   retval, errors, prev>>

\* the agent function runs to its end; its result or exception is set on
\* the future
WorkerFinish(i) ==
    /\ wstate[i] = "running"
    /\ wstate' = [wstate EXCEPT ![i] = "finished"]
    /\ future' = [future EXCEPT ![i] =
                     RunAgent(AgentOrder[i],
                              Complete(stub, AgentOrder[i], exception_details))]
    /\ UNCHANGED <<stub, pc, exception_details, nsub, future_to_agent, idx,
                   results, pending, executor_shutdown, retval, errors, prev>>

\* the loop body without its try: the task's exception leaves the loop
CollectOne_notry(agent_name, f) ==
    IF f.kind = "result"
    THEN [store |-> TRUE, value |-> f.val, shown |-> <<>>, exc |-> NoException]
    ELSE [store |-> FALSE, value |-> NoneVal, shown |-> <<>>, exc |-> f]

\* the handler storing str(e) alone
CollectOne_noprefix(agent_name, f) ==
    IF f.kind = "result"
    THEN [store |-> TRUE, value |-> f.val, shown |-> <<>>, exc |-> NoException]
    ELSE [store |-> TRUE, value |-> Str(f.msg),
          shown |-> << <<"Error in ", agent_name, ": ">> \o f.msg >>,
          exc |-> NoException]

\* the body of the for loop for one finished future: what is stored under
\* agent_name, what st.error shows, whether an exception leaves the loop
CollectOne(agent_name, f) ==
    IF f.kind = "result"
    THEN [store |-> TRUE, value |-> f.val, shown |-> <<>>, exc |-> NoException]
    ELSE [store |-> TRUE, value |-> Str(<<"Error: ">> \o f.msg),
          shown |-> << <<"Error in ", agent_name, ": ">> \o f.msg >>,
          exc |-> NoException]

\* every future mapped to the name bound last
AgentNameOf_last(f2a, i) == f2a[Len(f2a)]

\* future_to_agent[future] for the future at position i of the dict
AgentNameOf(f2a, i) == f2a[i]

\* a collection that does not wait for the work item
ResultReady_nowait(ws, i) == TRUE

\* future.result() without timeout blocks until the work item is done
ResultReady(ws, i) == ws[i] = "finished"

\* one iteration of the loop
Collect ==
    /\ pc = "collect"
    /\ ResultReady(wstate, idx)
    /\ LET agent_name == AgentNameOf(future_to_agent, idx)
           c == CollectOne(agent_name, future[idx]) IN
         /\ results' = IF c.store
                       THEN [n \in DOMAIN results \cup {agent_name} |->
                               IF n = agent_name THEN c.value ELSE results[n]]
                       ELSE results
         /\ errors' = errors \o c.shown
         /\ pending' = c.exc
         /\ IF c.exc.kind = "exception" \/ idx = Len(future_to_agent)
            THEN pc' = "exit" /\ idx' = idx
            ELSE pc' = "collect" /\ idx' = idx + 1
    /\ UNCHANGED <<stub, exception_details, nsub, wstate, future,
                   future_to_agent, executor_shutdown, retval, prev>>

\* shutdown(wait=False)
ShutdownDone_nowait(ws) == TRUE

\* executor.__exit__: shutdown(wait=True) joins the pool's threads, which
\* run every queued work item before they stop
ShutdownDone(ws) == \A i \in Items : ws[i] \in {"none", "finished"}

\* without the handler of line 114 the exception reaches the caller
Finish_reraise(res, exc) ==
    IF exc.kind = "exception"
    THEN [pc |-> "raised", value |-> EmptyMap, shown |-> <<>>]
    ELSE [pc |-> "returned", value |-> res, shown |-> <<>>]

\* how the call ends once the with block is left: `return results`, or the
\* handler of line 114 when an exception is in flight
Finish(res, exc) ==
    IF exc.kind = "exception"
    THEN [pc |-> "returned", value |-> EmptyMap,
          shown |-> << <<"Main process error: ">> \o exc.msg >>]
    ELSE [pc |-> "returned", value |-> res, shown |-> <<>>]

ExitWith ==
    /\ pc = "exit"
    /\ ShutdownDone(wstate)
    /\ executor_shutdown' = TRUE
    /\ LET f == Finish(results, pending) IN
         /\ pc' = f.pc
         /\ retval' = f.value
         /\ errors' = errors \o f.shown
    /\ pending' = NoException
    /\ UNCHANGED <<stub, exception_details, nsub, wstate, future,
                   future_to_agent, idx, results, prev>>

Next ==
    \/ \E t \in Texts : Call(t)
    \/ Submit
    \/ \E enqueued \in BOOLEAN : SubmitFail(enqueued)
    \/ \E i \in Items : WorkerStart(i)
    \/ \E i \in Items : WorkerFinish(i)
    \/ Collect
    \/ ExitWith

Spec == Init /\ [][Next]_vars

TypeOK ==
    /\ pc \in {"idle", "submit", "collect", "exit", "returned", "raised"}
    /\ nsub \in 0..Len(AgentOrder)
    /\ DOMAIN results \subseteq AgentNames

----------------------------------------------------------------------------
(* Vocabulary of the properties                                            *)

\* what the provider does with the request of agent n in the current call
Response(n) == Complete(stub, n, exception_details)

ItemOf(n) == CHOOSE i \in Items : AgentOrder[i] = n

Validated == {"classification", "resolution"}

\* the call has returned to its caller
Returned == pc = "returned"

\* every executor.submit of the current call returned a future
AllSubmitted == nsub = Len(AgentOrder)

\* the three provider calls of the current call have all been made
AllCalled == \A i \in Items : wstate[i] = "finished"

IsJson(text) == Loads(text).ok

\* the keys of the object a JSON text parses to
KeysOf(text) == LET v == Loads(text).val IN {v.items[j][1] : j \in DOMAIN v.items}

\* obj[key] of the object a JSON text parses to (the last pair wins)
FieldOf(text, key) ==
    LET v == Loads(text).val
        J == {j \in DOMAIN v.items : v.items[j][1] = key}
        last == CHOOSE j \in J : \A k \in J : k <= j
    IN v.items[last][2].s

IsObject(text) == Loads(text).ok /\ Loads(text).val.k = "object"

ShapeKeys(n) ==
    IF n = "classification" THEN {<<"type">>, <<"priority">>, <<"complexity">>}
    ELSE {<<"suggestion">>, <<"confidence">>, <<"rationale">>}

PrimaryKey(n) == IF n = "classification" THEN <<"type">> ELSE <<"suggestion">>

\* a fallback object of agent n whose primary field is the text `primary`
IsFallback(n, value, primary) ==
    /\ value.ty = "str"
    /\ IsObject(value.s)
    /\ KeysOf(value.s) = ShapeKeys(n)
    /\ FieldOf(value.s, PrimaryKey(n)) = <<primary>>
    /\ n = "resolution" => FieldOf(value.s, <<"confidence">>) = <<"0%">>

\* the provider answered agent n with text that is JSON / that is not
AnsweredJson(n) ==
    /\ Response(n).kind = "result"
    /\ Response(n).val.ty = "str"
    /\ IsJson(Response(n).val.s)

AnsweredNonJson(n) ==
    /\ Response(n).kind = "result"
    /\ Response(n).val.ty = "str"
    /\ ~IsJson(Response(n).val.s)

\* the call or the validation of agent n raises something that is not a
\* JSON decode error
FailsOtherwise(n) ==
    \/ Response(n).kind = "exception" /\ Response(n).cls # "JSONDecodeError"
    \/ Response(n).kind = "result" /\ Response(n).val.ty # "str"

\* the entry the coordinator makes for a task that ends with outcome f
EntryFor(f) == IF f.kind = "result" THEN f.val ELSE Str(<<"Error: ">> \o f.msg)

\* the mapping a call with the current input yields from the stub alone
Determined == [n \in AgentNames |-> EntryFor(RunAgent(n, Response(n)))]

----------------------------------------------------------------------------
(* C1 *)

\* C1, as stated: every call returns a mapping whose key set is exactly
\* {classification, resolution, explanation} and never raises.
C1_AsStated ==
    /\ pc # "raised"
    /\ Returned => DOMAIN retval = AgentNames

\* C1, amended: a call never raises; the mapping it returns has exactly the
\* three keys when all three submissions succeeded and is empty when one
\* of them raised.
C1_KeysOrEmpty ==
    /\ pc # "raised"
    /\ Returned /\ AllSubmitted => DOMAIN retval = AgentNames
    /\ Returned /\ ~AllSubmitted => retval = EmptyMap

\* a call on the empty text has returned all three keys although every
\* provider call raised or answered nothing usable
C1_Witness ==
    /\ Returned /\ AllSubmitted
    /\ exception_details = <<>>
    /\ \A n \in AgentNames : Response(n).kind = "exception"
    /\ DOMAIN retval = AgentNames

----------------------------------------------------------------------------
(* C2 *)

\* exactly the provider call of agent x raises, the two others return
OnlyFails(x) ==
    /\ Response(x).kind = "exception"
    /\ \A n \in AgentNames \ {x} : Response(n).kind = "result"

\* C2, as stated: when one provider call raises and the two others return,
\* the returned mapping holds the two others' entries, each equal to what
\* its task produces on its own.
C2_AsStated ==
    Returned /\ AllCalled =>
      \A x \in AgentNames : OnlyFails(x) =>
        \A n \in AgentNames \ {x} :
          /\ n \in DOMAIN retval
          /\ retval[n] = RunAgent(n, Response(n)).val

\* C2, amended: the same, for a call whose three submissions all succeeded.
C2_Isolation ==
    Returned /\ AllSubmitted =>
      \A x \in AgentNames : OnlyFails(x) =>
        \A n \in AgentNames \ {x} :
          /\ n \in DOMAIN retval
          /\ retval[n] = RunAgent(n, Response(n)).val

\* the explanation call raised to the coordinator, the two others are in
\* the mapping with their own results
C2_Witness ==
    /\ Returned /\ AllSubmitted
    /\ OnlyFails("explanation")
    /\ future[ItemOf("explanation")].kind = "exception"
    /\ retval["classification"] = Str(SampleJson)
    /\ retval["resolution"] = Str(SampleJson)

----------------------------------------------------------------------------
(* C3 *)

\* C3: in every returned mapping the classification and resolution
\* entries, when present, are valid JSON text: the provider's own text, or
\* an object with the keys of the agent's shape.
C3_ValidJson ==
    Returned =>
      \A n \in Validated \cap DOMAIN retval :
        /\ retval[n].ty = "str"
        /\ IsJson(retval[n].s)
        /\ \/ AnsweredJson(n) /\ retval[n] = Response(n).val
           \/ IsObject(retval[n].s) /\ KeysOf(retval[n].s) = ShapeKeys(n)

\* a provider error whose message holds a quote, a backslash and a newline
\* has become a fallback object that parses
C3_Witness ==
    /\ Returned /\ AllSubmitted
    /\ Response("classification").kind = "exception"
    /\ QUOTE \in {Response("classification").msg[j] : j \in DOMAIN Response("classification").msg}
    /\ Response("resolution").kind = "result" /\ Response("resolution").val.ty = "None"
    /\ IsObject(retval["classification"].s)
    /\ IsObject(retval["resolution"].s)

----------------------------------------------------------------------------
(* C4 *)

\* C4: when the provider answers the classification or resolution request
\* with valid JSON text, the task's result, and the entry of the returned
\* mapping, is that very text.
C4_Passthrough ==
    \A n \in Validated : AnsweredJson(n) =>
      /\ wstate[ItemOf(n)] = "finished" => future[ItemOf(n)] = Returns(Response(n).val)
      /\ Returned /\ n \in DOMAIN retval => retval[n] = Response(n).val

\* the compact sample object came back unchanged under both keys
C4_Witness ==
    /\ Returned
    /\ \A n \in Validated :
         /\ Response(n).val = Str(SampleJson)
         /\ n \in DOMAIN retval
         /\ retval[n] = Str(SampleJson)

----------------------------------------------------------------------------
(* C5 *)

\* C5: when the provider answers the classification or resolution request
\* with text that is not JSON, the task's result, and the entry of the
\* returned mapping, parses to an object with the shape's keys whose primary
\* field is "Error: Invalid response format" (confidence "0%" for
\* resolution).
C5_InvalidFormat ==
    \A n \in Validated : AnsweredNonJson(n) =>
      /\ wstate[ItemOf(n)] = "finished" =>
           /\ future[ItemOf(n)].kind = "result"
           /\ IsFallback(n, future[ItemOf(n)].val, "Error: Invalid response format")
      /\ Returned /\ n \in DOMAIN retval =>
           IsFallback(n, retval[n], "Error: Invalid response format")

\* the resolution provider said `not json`, the classification provider
\* echoed an input with quotes in it
C5_Witness ==
    /\ Returned /\ AllSubmitted
    /\ Response("resolution").val = Str(<<"not", SP, "json">>)
    /\ stub["classification"].kind = "echo" /\ AnsweredNonJson("classification")
    /\ FieldOf(retval["resolution"].s, <<"suggestion">>) = <<"Error: Invalid response format">>
    /\ FieldOf(retval["resolution"].s, <<"confidence">>) = <<"0%">>
    /\ FieldOf(retval["classification"].s, <<"type">>) = <<"Error: Invalid response format">>

----------------------------------------------------------------------------
(* C6 *)

\* C6: when the call or the validation of the classification or resolution
\* task raises anything but a JSON decode error, the task returns a
\* fallback object whose primary field is "Error: System error"; the
\* coordinator's entry for it is that object, never "Error: <message>".
C6_SystemError ==
    \A n \in Validated : FailsOtherwise(n) =>
      /\ wstate[ItemOf(n)] = "finished" =>
           /\ future[ItemOf(n)].kind = "result"
           /\ IsFallback(n, future[ItemOf(n)].val, "Error: System error")
      /\ Returned /\ n \in DOMAIN retval =>
           /\ IsFallback(n, retval[n], "Error: System error")
           /\ retval[n].s[1] # "Error: "

\* a connection error for classification and a missing content for
\* resolution both ended as "Error: System error" objects
C6_Witness ==
    /\ Returned /\ AllSubmitted
    /\ Response("classification").cls = "APIConnectionError"
    /\ Response("resolution").kind = "result" /\ Response("resolution").val.ty = "None"
    /\ FieldOf(retval["classification"].s, <<"type">>) = <<"Error: System error">>
    /\ FieldOf(retval["resolution"].s, <<"suggestion">>) = <<"Error: System error">>

----------------------------------------------------------------------------
(* C7 *)

\* C7: when a task raised to the coordinator, the call still returns; the
\* task's own entry is "Error: " followed by the error's message, and every
\* other entry is its own task's result.
C7_ErrorEntry ==
    \A i \in Items :
      (pc \in {"returned", "raised"} /\ AllSubmitted /\ future[i].kind = "exception") =>
        /\ Returned
        /\ DOMAIN retval = AgentNames
        /\ retval[AgentOrder[i]] = Str(<<"Error: ">> \o future[i].msg)
        /\ \A j \in Items \ {i} :
             future[j].kind = "result" => retval[AgentOrder[j]] = future[j].val

\* the explanation provider raised a connection error; the entry starts
\* with "Error: " and the sample object is under the two other keys
C7_Witness ==
    /\ Returned /\ AllSubmitted
    /\ future[ItemOf("explanation")].cls = "APIConnectionError"
    /\ retval["explanation"].s[1] = "Error: "
    /\ Len(retval["explanation"].s) > 1
    /\ retval["classification"] = Str(SampleJson)
    /\ retval["resolution"] = Str(SampleJson)

----------------------------------------------------------------------------
(* C8 *)

\* C8: when a submission raises, the call returns the empty mapping and
\* does not raise, and no work item is queued or running any more.
C8_EmptyOnSubmitFailure ==
    (pc \in {"returned", "raised"} /\ ~AllSubmitted) =>
      /\ Returned
      /\ retval = EmptyMap
      /\ \A i \in Items : wstate[i] \in {"none", "finished"}

\* the third submission raised after two tasks had been submitted; both
\* ran to their end before the empty mapping was returned
C8_Witness ==
    /\ Returned
    /\ nsub = 2
    /\ wstate[1] = "finished" /\ wstate[2] = "finished"
    /\ retval = EmptyMap
    /\ Len(errors) = 1

----------------------------------------------------------------------------
(* C9 *)

\* C9: when the call returns no work item is queued or running, the pool is
\* shut down, and the mapping holds either an entry for every submitted
\* task or none at all.
C9_JoinBeforeReturn ==
    Returned =>
      /\ \A i \in Items : wstate[i] \notin {"queued", "running"}
      /\ \A i \in 1..nsub : wstate[i] = "finished"
      /\ executor_shutdown
      /\ DOMAIN retval \in {{}, {AgentOrder[i] : i \in 1..nsub}}

\* a call has returned with all three tasks finished, one of them failed,
\* the pool shut down and an entry for each task
C9_Witness ==
    /\ Returned /\ AllSubmitted
    /\ \A i \in Items : wstate[i] = "finished"
    /\ \E i \in Items : future[i].kind = "exception"
    /\ executor_shutdown
    /\ DOMAIN retval = AgentNames

----------------------------------------------------------------------------
(* C10 *)

\* C10, as stated: against the stub the returned mapping is the one the
\* input determines, entry by entry, and equals the mapping the previous
\* call returned for the same input.
C10_AsStated ==
    Returned =>
      /\ retval = Determined
      /\ (prev.valid /\ prev.input = exception_details) => prev.output = retval

\* C10, amended: the same, for calls whose three submissions all succeeded.
C10_Determined ==
    Returned /\ AllSubmitted =>
      /\ retval = Determined
      /\ (prev.valid /\ prev.input = exception_details
          /\ prev.submitted = Len(AgentOrder)) => prev.output = retval

\* a second call with the input of the first has returned the same full
\* mapping; the stub's answers depend on the input
C10_Witness ==
    /\ Returned /\ AllSubmitted
    /\ prev.valid /\ prev.submitted = Len(AgentOrder)
    /\ prev.input = exception_details
    /\ exception_details # <<>>
    /\ \E n \in AgentNames : stub[n].kind = "echo"
    /\ prev.output = retval
    /\ DOMAIN retval = AgentNames

====
